---- MODULE Spec2Model ----
(***************************************************************************)
(* A model of the MIX register machine of src/main.rs: the byte / word     *)
(* data model, field-specification slicing and merging, signed-magnitude   *)
(* addition with overflow, and the single-step transition Mix::exec.       *)
(*                                                                         *)
(* Arrays keep the source's 0-based indices: a Word's bytes are a function *)
(* on 0..4, an Index's or Jump's or Address's bytes a function on 0..1.    *)
(* Option<T> is modelled as a set with at most one element ({} is None).   *)
(***************************************************************************)
EXTENDS Integers, FiniteSets, Sequences, TLC

VARIABLES
    mix,        \* the machine state (struct Mix)
    old,        \* the machine state the last exec call consumed (its `self`)
    start,      \* the machine state the driver set up before its first exec call
    history,    \* the instructions exec has been called with, in order
    status,     \* "running", or "panic" once an exec call has panicked
    fuel,       \* exec calls the driver still makes
    input,      \* Option: the arguments handed to a pure function
    output      \* Option: the value that pure function returned

vars == <<mix, old, start, history, status, fuel, input, output>>

-----------------------------------------------------------------------------
(* Program constants *)

BYTE == 64
WORD_BYTES == 5
MEMORY_SIZE == 4000

(* Bounds of the model *)

\* exec calls per run of the whole machine (specification Spec)
MaxSteps == 1
\* ADD instructions per run of the adder (specification SpecAdd)
MaxAdds == 2
\* byte values 0..MaxLowByte and BYTE-1-MaxLowByte..BYTE-1 are the ones the
\* words handed to slice and merge are built from (specification SpecField)
MaxLowByte == 0
\* exec calls per run of the store-and-load driver (specification SpecRoundTrip)
MaxRoundTrip == 2
\* exec calls per run of the addressing driver (specification SpecAddr)
MaxAddrSteps == 1

-----------------------------------------------------------------------------
(* Byte, Sign, Word *)

Bytes == 0..(BYTE - 1)

\* The two builds of the crate: debug_assert! is compiled in ("debug") or
\* compiled out ("release").
Builds == {"debug", "release"}

\* Byte::new(b) in a build: Some(Byte), or None when the assertion panics.
NewByte(b, build) ==
    IF build = "debug" /\ ~(b < BYTE) THEN {} ELSE {b}

Sign == {"Minus", "Plus"}

SignDefault == "Plus"

opposite(sign) == IF sign = "Plus" THEN "Minus" ELSE "Plus"

ByteDefault == 0

NewWord(sign, b0, b1, b2, b3, b4) ==
    [sign |-> sign,
     bytes |-> [k \in 0..(WORD_BYTES - 1) |->
                  CASE k = 0 -> b0 [] k = 1 -> b1 [] k = 2 -> b2
                    [] k = 3 -> b3 [] OTHER -> b4]]

WordDefault == NewWord(SignDefault, ByteDefault, ByteDefault, ByteDefault, ByteDefault, ByteDefault)

neg(word) == [word EXCEPT !.sign = opposite(word.sign)]

-----------------------------------------------------------------------------
(* Modification (field specification) *)

field(l, r) == [l |-> l, r |-> r]

\* Faulty variant: l and r taken from the wrong halves of the byte.
ModificationFromByte_swapped(b) == field(b % 8, b \div 8)

ModificationFromByte(b) == field(b \div 8, b % 8)

ModificationIntoByte(m) == m.l * 8 + m.r

\* The loop of Word::slice from iteration i on; bytes is the array built so far.
RECURSIVE SliceLoop(_, _, _, _, _)
SliceLoop(self, l, len, i, bytes) ==
    IF i >= len THEN bytes
    ELSE IF l + i = 0 THEN SliceLoop(self, l, len, i + 1, bytes)
    ELSE LET index_from == l + i - 1
             index_to == WORD_BYTES + i - len
         IN SliceLoop(self, l, len, i + 1,
                      [bytes EXCEPT ![index_to] = self.bytes[index_from]])

\* Faulty variant: the field is copied to the high-order end of the result.
slice_left_justified(self, m) ==
    LET sign == IF m.l > 0 THEN SignDefault ELSE self.sign
        lo == IF m.l > 0 THEN m.l ELSE 1
        n == m.r - lo + 1
    IN [sign |-> sign,
        bytes |-> [k \in 0..(WORD_BYTES - 1) |->
                     IF k < n THEN self.bytes[lo - 1 + k] ELSE ByteDefault]]

\* Faulty variant: the result keeps the source sign also when l > 0.
slice_keeps_sign(self, m) ==
    LET len == (m.r - m.l) + 1
    IN [sign |-> self.sign,
        bytes |-> SliceLoop(self, m.l, len, 0, [k \in 0..(WORD_BYTES - 1) |-> ByteDefault])]

slice(self, m) ==
    LET sign == IF m.l > 0 THEN SignDefault ELSE self.sign
        len == (m.r - m.l) + 1
    IN [sign |-> sign,
        bytes |-> SliceLoop(self, m.l, len, 0, [k \in 0..(WORD_BYTES - 1) |-> ByteDefault])]

\* The loop of Word::merge from iteration i on; result is the word built so far.
RECURSIVE MergeLoop(_, _, _, _, _)
MergeLoop(result, word, l, len, i) ==
    IF i >= len THEN result
    ELSE IF l + i = 0 THEN MergeLoop(result, word, l, len, i + 1)
    ELSE LET index_from == WORD_BYTES + i - len
             index_to == l + i - 1
         IN MergeLoop([result EXCEPT !.bytes[index_to] = word.bytes[index_from]],
                      word, l, len, i + 1)

\* Faulty variant: the sign is overwritten also when l > 0.
merge_always_sign(self, word, m) ==
    LET result == [self EXCEPT !.sign = word.sign]
        len == (m.r - m.l) + 1
    IN MergeLoop(result, word, m.l, len, 0)

merge(self, word, m) ==
    LET result == IF m.l = 0 THEN [self EXCEPT !.sign = word.sign] ELSE self
        len == (m.r - m.l) + 1
    IN MergeLoop(result, word, m.l, len, 0)

-----------------------------------------------------------------------------
(* Signed-magnitude addition *)

\* #[derive(PartialOrd)] on Word: the sign first (Minus < Plus, the order of the
\* enum's variants), then the bytes lexicographically.
RECURSIVE BytesLt(_, _, _)
BytesLt(p, q, k) ==
    IF k >= WORD_BYTES THEN FALSE
    ELSE IF p[k] # q[k] THEN p[k] < q[k]
    ELSE BytesLt(p, q, k + 1)

SignLt(s, t) == s = "Minus" /\ t = "Plus"

WordLt(v, w) ==
    IF v.sign # w.sign THEN SignLt(v.sign, w.sign) ELSE BytesLt(v.bytes, w.bytes, 0)

\* The same-sign loop, for i = k down to 0: [word, carry].
RECURSIVE AddLoop(_, _, _, _)
AddLoop(a, b, k, carry) ==
    IF k < 0 THEN [word |-> a, carry |-> carry]
    ELSE LET sum == a.bytes[k] + b.bytes[k] + carry
         IN AddLoop([a EXCEPT !.bytes[k] = sum % BYTE], b, k - 1, sum \div BYTE)

\* The differing-sign loop, for i = k down to 0: [word, carry].
RECURSIVE SubLoop(_, _, _, _)
SubLoop(a, b, k, carry) ==
    IF k < 0 THEN [word |-> a, carry |-> carry]
    ELSE LET d == a.bytes[k] - b.bytes[k] - carry
             s == IF d < 0 THEN d + BYTE ELSE d
             abs_s == IF s < 0 THEN -s ELSE s
         IN SubLoop([a EXCEPT !.bytes[k] = abs_s % BYTE], b, k - 1,
                    IF d < 0 THEN 1 ELSE 0)

\* Faulty variant: the final carry is dropped.
overflowing_add_no_carry_out(self, other) ==
    LET r == IF self.sign = other.sign
             THEN AddLoop(self, other, WORD_BYTES - 1, 0)
             ELSE IF WordLt(self, neg(other))
                  THEN SubLoop(other, self, WORD_BYTES - 1, 0)
                  ELSE SubLoop(self, other, WORD_BYTES - 1, 0)
    IN [sum |-> r.word, overflows |-> FALSE]

\* Faulty variant: the smaller magnitude is not moved to the subtrahend.
overflowing_add_no_swap(self, other) ==
    LET r == IF self.sign = other.sign
             THEN AddLoop(self, other, WORD_BYTES - 1, 0)
             ELSE SubLoop(self, other, WORD_BYTES - 1, 0)
    IN [sum |-> r.word, overflows |-> 0 < r.carry]

\* Faulty variant: the operands are swapped on a <= -b instead of a < -b.
overflowing_add_swap_on_tie(self, other) ==
    LET r == IF self.sign = other.sign
             THEN AddLoop(self, other, WORD_BYTES - 1, 0)
             ELSE IF ~WordLt(neg(other), self)
                  THEN SubLoop(other, self, WORD_BYTES - 1, 0)
                  ELSE SubLoop(self, other, WORD_BYTES - 1, 0)
    IN [sum |-> r.word, overflows |-> 0 < r.carry]

\* Faulty variant: the lowest-order byte of a same-sign sum is not reduced.
overflowing_add_unreduced(self, other) ==
    LET r == IF self.sign = other.sign
             THEN AddLoop(self, other, WORD_BYTES - 1, 0)
             ELSE IF WordLt(self, neg(other))
                  THEN SubLoop(other, self, WORD_BYTES - 1, 0)
                  ELSE SubLoop(self, other, WORD_BYTES - 1, 0)
    IN [sum |-> IF self.sign = other.sign
                THEN [r.word EXCEPT !.bytes[WORD_BYTES - 1] =
                         self.bytes[WORD_BYTES - 1] + other.bytes[WORD_BYTES - 1]]
                ELSE r.word,
        overflows |-> 0 < r.carry]

overflowing_add(self, other) ==
    LET r == IF self.sign = other.sign
             THEN AddLoop(self, other, WORD_BYTES - 1, 0)
             ELSE IF WordLt(self, neg(other))
                  THEN SubLoop(other, self, WORD_BYTES - 1, 0)
                  ELSE SubLoop(self, other, WORD_BYTES - 1, 0)
    IN [sum |-> r.word, overflows |-> 0 < r.carry]

-----------------------------------------------------------------------------
(* Registers, toggles, addresses, instructions *)

NewIndex(sign, b0, b1) == [sign |-> sign, bytes |-> [k \in 0..1 |-> IF k = 0 THEN b0 ELSE b1]]

IndexDefault == NewIndex(SignDefault, ByteDefault, ByteDefault)

\* Faulty variant: the two high-order bytes of the word are kept.
IndexFromWord_high_bytes(word) == NewIndex(word.sign, word.bytes[0], word.bytes[1])

IndexFromWord(word) == NewIndex(word.sign, word.bytes[3], word.bytes[4])

\* Faulty variant: the two bytes go to the high-order end of the word.
IndexIntoWord_high_bytes(ix) ==
    NewWord(ix.sign, ix.bytes[0], ix.bytes[1], ByteDefault, ByteDefault, ByteDefault)

IndexIntoWord(ix) ==
    NewWord(ix.sign, ByteDefault, ByteDefault, ByteDefault, ix.bytes[0], ix.bytes[1])

NewJump(b0, b1) == [bytes |-> [k \in 0..1 |-> IF k = 0 THEN b0 ELSE b1]]

JumpDefault == NewJump(ByteDefault, ByteDefault)

JumpIntoWord(jump) ==
    NewWord("Plus", ByteDefault, ByteDefault, ByteDefault, jump.bytes[0], jump.bytes[1])

Toggle == {"On", "Off"}

ToggleDefault == "Off"

ToggleFrom(b) == IF b THEN "On" ELSE "Off"

ComparisonDefault == "Equal"

Abs(n) == IF n < 0 THEN -n ELSE n

NewAddress(address) ==
    [sign |-> IF address >= 0 THEN "Plus" ELSE "Minus",
     bytes |-> [k \in 0..1 |-> IF k = 0 THEN Abs(address) \div BYTE
                                        ELSE Abs(address) % BYTE]]

\* Address::new(address) in a build, its two bytes made by Byte::new (the
\* quotient is cast to u8): Some(Address), or None when Byte::new panics.
NewAddressIn(address, build) ==
    LET b0 == NewByte((Abs(address) \div BYTE) % (4 * BYTE), build)
        b1 == NewByte(Abs(address) % BYTE, build)
    IN IF b0 = {} \/ b1 = {} THEN {}
       ELSE {[sign |-> IF address >= 0 THEN "Plus" ELSE "Minus",
              bytes |-> [k \in 0..1 |-> IF k = 0 THEN CHOOSE b \in b0 : TRUE
                                                 ELSE CHOOSE b \in b1 : TRUE]]}

Loads == {"LDA", "LDX", "LD1", "LD2", "LD3", "LD4", "LD5", "LD6"}

NegatedLoads == {"LDAN", "LDXN", "LD1N", "LD2N", "LD3N", "LD4N", "LD5N", "LD6N"}

Stores == {"STA", "STX", "ST1", "ST2", "ST3", "ST4", "ST5", "ST6", "STJ", "STZ"}

Operation == Loads \cup NegatedLoads \cup Stores \cup {"ADD"}

\* Faulty variant: (0,5) also for STJ.
default_modification_whole_word(operation) == field(0, 5)

default_modification(operation) ==
    IF operation = "STJ" THEN field(0, 2) ELSE field(0, 5)

NewInstruction(operation, address, index, modification) ==
    [operation |-> operation, address |-> address, index |-> index,
     modification |-> modification]

\* Option::unwrap_or_else
UnwrapOr(option, default) ==
    IF option = {} THEN default ELSE CHOOSE v \in option : TRUE

-----------------------------------------------------------------------------
(* The machine *)

\* The cells of Mix::memory the model keeps. The instructions of the model
\* address only these, so every other cell of the 4000 keeps its initial value.
Cells == {0, 2000, 3999}

MemoryDefault == [c \in Cells |-> WordDefault]

MixDefault ==
    [a |-> WordDefault, x |-> WordDefault,
     i1 |-> IndexDefault, i2 |-> IndexDefault, i3 |-> IndexDefault,
     i4 |-> IndexDefault, i5 |-> IndexDefault, i6 |-> IndexDefault,
     j |-> JumpDefault, overflow |-> ToggleDefault,
     comparison_indicator |-> ComparisonDefault,
     memory |-> MemoryDefault]

\* Faulty variant: a Minus address is taken as cell 0.
CellIndex_signed(address) ==
    IF address.sign = "Minus" THEN 0 ELSE address.bytes[0] * BYTE + address.bytes[1]

\* The array index contents and save_contents compute from an address.
CellIndex(address) == address.bytes[0] * BYTE + address.bytes[1]

\* The bounds check of the array access self.memory[i].
InBounds(address) == CellIndex(address) < MEMORY_SIZE

contents(self, address) == self.memory[CellIndex(address)]

save_contents(self, address, word) ==
    [self EXCEPT !.memory[CellIndex(address)] = word]

\* Faulty variant: the field specification is ignored.
load_whole_cell(self, instruction) == contents(self, instruction.address)

load(self, instruction) ==
    LET operation == instruction.operation
        f == UnwrapOr(instruction.modification, default_modification(operation))
    IN slice(contents(self, instruction.address), f)

store(self, word, instruction) ==
    LET cell == contents(self, instruction.address)
        operation == instruction.operation
        f == UnwrapOr(instruction.modification, default_modification(operation))
    IN save_contents(self, instruction.address, merge(cell, word, f))

\* The match of Mix::exec on the operation.
dispatch(self, instruction) ==
    LET operation == instruction.operation
    IN CASE operation = "LDA" -> [self EXCEPT !.a = load(self, instruction)]
         [] operation = "LDX" -> [self EXCEPT !.x = load(self, instruction)]
         [] operation = "LD1" -> [self EXCEPT !.i1 = IndexFromWord(load(self, instruction))]
         [] operation = "LD2" -> [self EXCEPT !.i2 = IndexFromWord(load(self, instruction))]
         [] operation = "LD3" -> [self EXCEPT !.i3 = IndexFromWord(load(self, instruction))]
         [] operation = "LD4" -> [self EXCEPT !.i4 = IndexFromWord(load(self, instruction))]
         [] operation = "LD5" -> [self EXCEPT !.i5 = IndexFromWord(load(self, instruction))]
         [] operation = "LD6" -> [self EXCEPT !.i6 = IndexFromWord(load(self, instruction))]
         [] operation = "LDAN" -> [self EXCEPT !.a = neg(load(self, instruction))]
         [] operation = "LDXN" -> [self EXCEPT !.x = neg(load(self, instruction))]
         [] operation = "LD1N" -> [self EXCEPT !.i1 = IndexFromWord(neg(load(self, instruction)))]
         [] operation = "LD2N" -> [self EXCEPT !.i2 = IndexFromWord(neg(load(self, instruction)))]
         [] operation = "LD3N" -> [self EXCEPT !.i3 = IndexFromWord(neg(load(self, instruction)))]
         [] operation = "LD4N" -> [self EXCEPT !.i4 = IndexFromWord(neg(load(self, instruction)))]
         [] operation = "LD5N" -> [self EXCEPT !.i5 = IndexFromWord(neg(load(self, instruction)))]
         [] operation = "LD6N" -> [self EXCEPT !.i6 = IndexFromWord(neg(load(self, instruction)))]
         [] operation = "STA" -> store(self, self.a, instruction)
         [] operation = "STX" -> store(self, self.x, instruction)
         [] operation = "ST1" -> store(self, IndexIntoWord(self.i1), instruction)
         [] operation = "ST2" -> store(self, IndexIntoWord(self.i2), instruction)
         [] operation = "ST3" -> store(self, IndexIntoWord(self.i3), instruction)
         [] operation = "ST4" -> store(self, IndexIntoWord(self.i4), instruction)
         [] operation = "ST5" -> store(self, IndexIntoWord(self.i5), instruction)
         [] operation = "ST6" -> store(self, IndexIntoWord(self.i6), instruction)
         [] operation = "STJ" -> store(self, JumpIntoWord(self.j), instruction)
         [] operation = "STZ" -> store(self, WordDefault, instruction)
         [] operation = "ADD" ->
             LET r == overflowing_add(self.a, load(self, instruction))
             IN [self EXCEPT !.a = r.sum, !.overflow = ToggleFrom(r.overflows)]

\* Faulty variant: loads and ADD write the loaded field back to the cell.
exec_writes_operand_back(self, instruction) ==
    LET next == dispatch(self, instruction)
    IN IF instruction.operation \in Stores THEN next
       ELSE save_contents(next, instruction.address, load(self, instruction))

\* Faulty variant: an overflow toggle that is On stays On.
exec_sticky_overflow(self, instruction) ==
    LET next == dispatch(self, instruction)
    IN IF self.overflow = "On" THEN [next EXCEPT !.overflow = "On"] ELSE next

\* Faulty variant: every instruction leaves the overflow toggle Off.
exec_clears_overflow(self, instruction) ==
    [dispatch(self, instruction) EXCEPT !.overflow = "Off"]

exec(self, instruction) == dispatch(self, instruction)

-----------------------------------------------------------------------------
(* Inputs *)

ValidFields == {f \in {field(l, r) : l \in 0..5, r \in 0..5} : f.l <= f.r}

\* Option<Modification>: None, or Some of a valid field specification
Modifications == {{}} \cup {{f} : f \in ValidFields}

\* Option<IndexNumber>
IndexSelectors == {{}}

\* The signed addresses instructions are built from (Address::new(n))
Addresses == {2000}

\* The state a test sets up before it calls exec: every register and cell holds
\* bytes that differ from position to position and from one another; the
\* addressed cell has sign cs and the registers the opposite sign; the
\* overflow toggle is On with a Minus cell and Off with a Plus cell.
SetUp(cs) ==
    LET rs == opposite(cs)
        ov == IF cs = "Minus" THEN "On" ELSE "Off"
    IN [MixDefault EXCEPT
          !.a = NewWord(rs, 6, 7, 8, 9, 10),
          !.x = NewWord(rs, 31, 32, 33, 34, 35),
          !.i1 = NewIndex(rs, 41, 51), !.i2 = NewIndex(rs, 42, 52),
          !.i3 = NewIndex(rs, 43, 53), !.i4 = NewIndex(rs, 44, 54),
          !.i5 = NewIndex(rs, 45, 55), !.i6 = NewIndex(rs, 46, 56),
          !.j = NewJump(61, 62),
          !.overflow = ov,
          !.memory = [c \in Cells |->
                        IF c = 2000 THEN NewWord(cs, 1, 16, 3, 5, 4)
                        ELSE IF c = 0 THEN NewWord("Plus", 11, 12, 13, 14, 15)
                        ELSE NewWord("Minus", 21, 22, 23, 24, 25)]]

\* Accumulators and memory operands the adder is started with
Accumulators ==
    {NewWord(s, m[1], m[2], m[3], m[4], m[5]) :
        s \in Sign,
        m \in {<<0, 0, 0, 0, 1>>, <<BYTE - 1, 0, 0, 0, 0>>,
               <<BYTE - 1, BYTE - 1, BYTE - 1, BYTE - 1, BYTE - 1>>}}

Operands ==
    {NewWord(s, m[1], m[2], m[3], m[4], m[5]) :
        s \in Sign,
        m \in {<<0, 0, 0, 0, 1>>, <<2, 0, 0, 0, 0>>,
               <<BYTE - 1, BYTE - 1, BYTE - 1, BYTE - 1, BYTE - 1>>}}

\* Byte values the words handed to slice and merge are built from
ByteVals == (0..MaxLowByte) \cup ((BYTE - 1 - MaxLowByte)..(BYTE - 1))

FieldWords ==
    {NewWord(s, b0, b1, b2, b3, b4) :
        s \in Sign, b0 \in ByteVals, b1 \in ByteVals, b2 \in ByteVals,
        b3 \in ByteVals, b4 \in ByteVals}

\* Arguments of the pure functions: a word and a field specification for
\* merge after slice; l and r with l <= r < 8 for the Byte conversions.
FieldInputs ==
    {[kind |-> "merge_slice", word |-> w, f |-> f] : w \in FieldWords, f \in ValidFields}
    \cup {[kind |-> "field_byte", word |-> WordDefault, f |-> f] :
            f \in {g \in {field(l, r) : l \in 0..7, r \in 0..7} : g.l <= g.r}}

\* Arguments of the constructors and conversions: every u8 for Byte::new, some
\* i16 for Address::new, every valid Byte for Modification::from, and pairs of
\* small u8 for Modification::field.
ByteInputs ==
    {[kind |-> "byte", arg |-> <<b>>, build |-> build] :
        b \in 0..(4 * BYTE - 1), build \in Builds}
    \cup {[kind |-> "address", arg |-> <<n>>, build |-> build] :
            n \in {0, 63, 64, 2000, -2000, 3999, 4095, -4095, 4096, -4096, 5000},
            build \in Builds}
    \cup {[kind |-> "decode", arg |-> <<b>>, build |-> build] :
            b \in Bytes, build \in Builds}
    \cup {[kind |-> "field", arg |-> <<l, r>>, build |-> build] :
            l \in 0..7, r \in 0..7, build \in Builds}

\* Addressing: signed addresses of both signs on both sides of the end of
\* memory, instructions with and without an index-register selector, with and
\* without a field.
AddressArgs == {2000, -2000, 3999, 4000, -4095}

AddrIndexSelectors == {{}, {"I1"}}

AddrModifications == {{}, {field(1, 3)}}

AddrInputs ==
    {[kind |-> "address", arg |-> <<n>>, build |-> build] :
        n \in AddressArgs, build \in Builds}

\* Store and load back: two cells, instructions with and without a field, and
\* a machine whose registers are all negative zero beside the set-up one.
RoundTripAddresses == {0, 2000}

RoundTripModifications == {{}, {field(1, 3)}}

NegativeZeros ==
    LET z == NewWord("Minus", 0, 0, 0, 0, 0)
        zi == NewIndex("Minus", 0, 0)
    IN [MixDefault EXCEPT
            !.a = z, !.x = z,
            !.i1 = zi, !.i2 = zi, !.i3 = zi, !.i4 = zi, !.i5 = zi, !.i6 = zi,
            !.memory[2000] = NewWord("Plus", 1, 16, 3, 5, 4)]

RoundTripStarts == {SetUp("Plus"), NegativeZeros}

-----------------------------------------------------------------------------
(* Initial states *)

Idle(m, n) ==
    /\ mix = m
    /\ old = m
    /\ start = m
    /\ history = <<>>
    /\ status = "running"
    /\ fuel = n

Init ==
    /\ \E cs \in Sign : Idle(SetUp(cs), MaxSteps)
    /\ input = {}
    /\ output = {}

InitAdd ==
    /\ \E acc \in Accumulators, b \in Operands :
         Idle([MixDefault EXCEPT !.a = acc, !.memory[2000] = b], MaxAdds)
    /\ input = {}
    /\ output = {}

InitField ==
    /\ Idle(MixDefault, 0)
    /\ \E i \in FieldInputs : input = {i}
    /\ output = {}

InitBytes ==
    /\ Idle(MixDefault, 0)
    /\ \E i \in ByteInputs : input = {i}
    /\ output = {}

InitAddr ==
    /\ \E cs \in Sign : Idle(SetUp(cs), MaxAddrSteps)
    /\ \E i \in AddrInputs : input = {i}
    /\ output = {}

InitRoundTrip ==
    /\ \E m \in RoundTripStarts : Idle(m, MaxRoundTrip)
    /\ input = {}
    /\ output = {}

-----------------------------------------------------------------------------
(* Actions *)

\* One call mix = mix.exec(instruction), which the driver makes while the
\* machine runs and it has calls left (the guards of the actions below). The
\* array access of contents panics
\* when the index is out of bounds; exec then returns no state.
Exec(instruction) ==
    /\ IF InBounds(instruction.address)
       THEN mix' = exec(mix, instruction) /\ status' = status
       ELSE mix' = mix /\ status' = "panic"
    /\ old' = mix
    /\ history' = Append(history, instruction)
    /\ fuel' = fuel - 1
    /\ UNCHANGED <<start, input, output>>

Instructions(operations) ==
    {NewInstruction(op, NewAddress(n), ix, m) :
        op \in operations, n \in Addresses, ix \in IndexSelectors, m \in Modifications}

Load ==
    /\ status = "running"
    /\ fuel > 0
    /\ \E instruction \in Instructions(Loads) : Exec(instruction)

LoadNegated ==
    /\ status = "running"
    /\ fuel > 0
    /\ \E instruction \in Instructions(NegatedLoads) : Exec(instruction)

Store ==
    /\ status = "running"
    /\ fuel > 0
    /\ \E instruction \in Instructions(Stores) : Exec(instruction)

Add ==
    /\ status = "running"
    /\ fuel > 0
    /\ \E instruction \in Instructions({"ADD"}) : Exec(instruction)

\* merge(W, slice(W, F), F)
MergeSlice ==
    /\ output = {}
    /\ \E i \in input :
         /\ i.kind = "merge_slice"
         /\ output' = {merge(i.word, slice(i.word, i.f), i.f)}
    /\ UNCHANGED <<mix, old, start, history, status, fuel, input>>

\* spec::field_byte_conversions: field -> Byte -> field -> Byte
FieldByte ==
    /\ output = {}
    /\ \E i \in input :
         /\ i.kind = "field_byte"
         /\ LET byte == ModificationIntoByte(i.f)
                back == ModificationFromByte(byte)
            IN output' = {[byte |-> byte, back |-> back,
                           again |-> ModificationIntoByte(back)]}
    /\ UNCHANGED <<mix, old, start, history, status, fuel, input>>

\* What a constructor call leaves: its value in output, or a panic.
Returned(result) ==
    IF result = {}
    THEN status' = "panic" /\ output' = output
    ELSE status' = status /\ output' = result

\* Byte::new(b)
MakeByte ==
    /\ status = "running"
    /\ output = {}
    /\ \E i \in input : i.kind = "byte" /\ Returned(NewByte(i.arg[1], i.build))
    /\ UNCHANGED <<mix, old, start, history, fuel, input>>

\* Address::new(n)
MakeAddress ==
    /\ status = "running"
    /\ output = {}
    /\ \E i \in input : i.kind = "address" /\ Returned(NewAddressIn(i.arg[1], i.build))
    /\ UNCHANGED <<mix, old, start, history, fuel, input>>

\* Modification::from(Byte(b))
DecodeField ==
    /\ status = "running"
    /\ output = {}
    /\ \E i \in input : i.kind = "decode" /\ Returned({ModificationFromByte(i.arg[1])})
    /\ UNCHANGED <<mix, old, start, history, fuel, input>>

\* Modification::field(l, r)
MakeField ==
    /\ status = "running"
    /\ output = {}
    /\ \E i \in input : i.kind = "field" /\ Returned({field(i.arg[1], i.arg[2])})
    /\ UNCHANGED <<mix, old, start, history, fuel, input>>

\* The instructions the addressing driver builds at the address it was given
InstructionsAt(operations) ==
    {NewInstruction(op, NewAddress(i.arg[1]), ix, m) :
        op \in operations, i \in {v \in input : v.kind = "address"},
        ix \in AddrIndexSelectors, m \in AddrModifications}

LoadAt ==
    /\ status = "running"
    /\ fuel > 0
    /\ \E instruction \in InstructionsAt(Loads \cup NegatedLoads) : Exec(instruction)

StoreAt ==
    /\ status = "running"
    /\ fuel > 0
    /\ \E instruction \in InstructionsAt(Stores) : Exec(instruction)

AddAt ==
    /\ status = "running"
    /\ fuel > 0
    /\ \E instruction \in InstructionsAt({"ADD"}) : Exec(instruction)

\* The instructions the store-and-load driver builds
RoundTripInstructions(operations) ==
    {NewInstruction(op, NewAddress(n), {}, m) :
        op \in operations, n \in RoundTripAddresses, m \in RoundTripModifications}

LoadBack ==
    /\ status = "running"
    /\ fuel > 0
    /\ \E instruction \in RoundTripInstructions(Loads) : Exec(instruction)

StoreOut ==
    /\ status = "running"
    /\ fuel > 0
    /\ \E instruction \in RoundTripInstructions(Stores) : Exec(instruction)

Next == Load \/ LoadNegated \/ Store \/ Add

Spec == Init /\ [][Next]_vars

NextAdd == Add

SpecAdd == InitAdd /\ [][NextAdd]_vars

NextField == MergeSlice \/ FieldByte

SpecField == InitField /\ [][NextField]_vars

NextBytes == MakeByte \/ MakeAddress \/ DecodeField \/ MakeField

SpecBytes == InitBytes /\ [][NextBytes]_vars

NextAddr == LoadAt \/ StoreAt \/ AddAt

SpecAddr == InitAddr /\ [][NextAddr]_vars

NextRoundTrip == LoadBack \/ StoreOut

SpecRoundTrip == InitRoundTrip /\ [][NextRoundTrip]_vars

-----------------------------------------------------------------------------
(* What the properties below are stated in *)

\* Option<Instruction>: the instruction of the last exec call
last == IF history = <<>> THEN {} ELSE {history[Len(history)]}

\* The last instruction, when it is one of operations and exec returned a state
Ran(operations) ==
    {instruction \in last : status = "running" /\ instruction.operation \in operations}

\* The field (L,R) an instruction names, (0,5) when it names none
GivenField(instruction) ==
    IF instruction.modification = {} THEN [l |-> 0, r |-> 5]
    ELSE CHOOSE f \in instruction.modification : TRUE

\* The cell of machine state m that an instruction addresses
Addressed(m, instruction) ==
    m.memory[instruction.address.bytes[0] * 64 + instruction.address.bytes[1]]

Flip(sign) == IF sign = "Minus" THEN "Plus" ELSE "Minus"

\* Field (L,R) of a cell as a word: byte positions max(L,1)..R right-justified,
\* zeros to their left, the cell's sign when L = 0 and Plus otherwise
FieldOf(cell, L, R) ==
    LET lo == IF L > 1 THEN L ELSE 1
        n == R - lo + 1
    IN [sign |-> IF L = 0 THEN cell.sign ELSE "Plus",
        bytes |-> [k \in 0..4 |-> IF k >= 5 - n THEN cell.bytes[k + R - 5] ELSE 0]]

\* The addend of an ADD: the field it names of the cell it addresses
Addend(instruction) ==
    FieldOf(Addressed(old, instruction), GivenField(instruction).l, GivenField(instruction).r)

Magnitude(w) ==
    (((w.bytes[0] * 64 + w.bytes[1]) * 64 + w.bytes[2]) * 64 + w.bytes[3]) * 64 + w.bytes[4]

SignedValue(w) == IF w.sign = "Plus" THEN Magnitude(w) ELSE 0 - Magnitude(w)

WordCapacity == 64 * 64 * 64 * 64 * 64

\* The carry into byte position k of the byte-wise sum p + q
RECURSIVE CarryInto(_, _, _)
CarryInto(p, q, k) ==
    IF k >= 4 THEN 0
    ELSE (p.bytes[k + 1] + q.bytes[k + 1] + CarryInto(p, q, k + 1)) \div 64

\* The borrow into byte position k of the byte-wise difference p - q
RECURSIVE BorrowInto(_, _, _)
BorrowInto(p, q, k) ==
    IF k >= 4 THEN 0
    ELSE IF p.bytes[k + 1] - q.bytes[k + 1] - BorrowInto(p, q, k + 1) < 0 THEN 1 ELSE 0

IndexRegister(m, k) ==
    CASE k = 1 -> m.i1 [] k = 2 -> m.i2 [] k = 3 -> m.i3
      [] k = 4 -> m.i4 [] k = 5 -> m.i5 [] OTHER -> m.i6

\* The word a store instruction takes its bytes and sign from
SourceWord(operation) ==
    CASE operation = "STA" -> old.a
      [] operation = "STX" -> old.x
      [] operation = "STJ" -> NewWord("Plus", 0, 0, 0, old.j.bytes[0], old.j.bytes[1])
      [] operation = "STZ" -> NewWord("Plus", 0, 0, 0, 0, 0)
      [] OTHER ->
           LET k == CHOOSE n \in 1..6 : operation = <<"ST1", "ST2", "ST3", "ST4", "ST5", "ST6">>[n]
               ix == IndexRegister(old, k)
           IN NewWord(ix.sign, 0, 0, 0, ix.bytes[0], ix.bytes[1])

-----------------------------------------------------------------------------
(* Properties *)

\* C1: merging the field just sliced out of a word back into that word, with
\* the same field specification, gives the word itself (sign and five bytes).
MergeAfterSlice ==
    \A i \in input, o \in output : i.kind = "merge_slice" => o = i.word

MergeAfterSliceWitness ==
    \E i \in input, o \in output :
        /\ i.kind = "merge_slice"
        /\ i.word = NewWord("Minus", 63, 0, 63, 0, 0)
        /\ i.f = [l |-> 2, r |-> 4]
        /\ o = i.word

\* C2: LDA / LDX leave in their register field (L,R) of the addressed cell,
\* right-justified and zero-filled, with the cell's sign when L = 0 and Plus
\* otherwise; LDAN / LDXN leave the same word with the sign flipped.
LoadFieldCorrect ==
    \A instruction \in Ran({"LDA", "LDX", "LDAN", "LDXN"}) :
        LET f == GivenField(instruction)
            want == FieldOf(Addressed(old, instruction), f.l, f.r)
            reg == IF instruction.operation \in {"LDA", "LDAN"} THEN mix.a ELSE mix.x
        IN /\ reg.bytes = want.bytes
           /\ reg.sign = IF instruction.operation \in {"LDAN", "LDXN"}
                         THEN Flip(want.sign) ELSE want.sign

LoadFieldCorrectWitness ==
    \E instruction \in Ran({"LDAN"}) :
        /\ instruction.modification = {[l |-> 1, r |-> 5]}
        /\ Addressed(old, instruction) = NewWord("Minus", 1, 16, 3, 5, 4)
        /\ mix.a = NewWord("Minus", 1, 16, 3, 5, 4)

\* C3: a store with field (L,R) replaces byte positions max(L,1)..R of the
\* addressed cell by the low-order bytes of the source word, keeps every other
\* byte, and takes the source word's sign when L = 0 and keeps the cell's
\* otherwise.
StoreFieldCorrect ==
    \A instruction \in Ran(Stores) :
        instruction.modification # {} =>
            LET f == GivenField(instruction)
                lo == IF f.l > 1 THEN f.l ELSE 1
                src == SourceWord(instruction.operation)
                before == Addressed(old, instruction)
                after == Addressed(mix, instruction)
            IN /\ \A p \in 1..5 :
                    after.bytes[p - 1] = IF lo <= p /\ p <= f.r
                                         THEN src.bytes[4 - (f.r - p)]
                                         ELSE before.bytes[p - 1]
               /\ after.sign = IF f.l = 0 THEN src.sign ELSE before.sign

StoreFieldCorrectWitness ==
    \E instruction \in Ran({"ST3"}) :
        /\ instruction.modification = {[l |-> 2, r |-> 3]}
        /\ Addressed(old, instruction) = NewWord("Minus", 1, 16, 3, 5, 4)
        /\ old.i3 = NewIndex("Plus", 43, 53)
        /\ Addressed(mix, instruction) = NewWord("Minus", 1, 43, 53, 5, 4)

\* C4: as long as only loads, negated loads and ADD have been executed, every
\* memory cell holds the word it held before the first instruction.
ReadsKeepMemory ==
    (\A k \in 1..Len(history) : history[k].operation \notin Stores)
        => mix.memory = start.memory

ReadsKeepMemoryWitness ==
    \E instruction \in Ran({"ADD"}) :
        /\ mix.a # old.a
        /\ mix.memory = start.memory

\* C5: ADD of operands of the same sign keeps that sign, leaves the magnitude
\* (|a| + |b|) mod 64^5, and sets the overflow toggle On exactly when
\* |a| + |b| >= 64^5.
AddSameSign ==
    \A instruction \in Ran({"ADD"}) :
        LET b == Addend(instruction)
            total == Magnitude(old.a) + Magnitude(b)
        IN old.a.sign = b.sign =>
             /\ mix.a.sign = old.a.sign
             /\ Magnitude(mix.a) = total % WordCapacity
             /\ (mix.overflow = "On") = (total >= WordCapacity)

AddSameSignWitness ==
    \E instruction \in Ran({"ADD"}) :
        /\ instruction.modification = {}
        /\ old.a = NewWord("Minus", 63, 0, 0, 0, 0)
        /\ Addressed(old, instruction) = NewWord("Minus", 2, 0, 0, 0, 0)
        /\ mix.a = NewWord("Minus", 1, 0, 0, 0, 0)
        /\ mix.overflow = "On"

\* C6: ADD of operands of different signs leaves the overflow toggle Off and
\* the magnitude ||a| - |b||, with the sign of the operand of strictly larger
\* magnitude.
AddDifferentSigns ==
    \A instruction \in Ran({"ADD"}) :
        LET b == Addend(instruction)
            ma == Magnitude(old.a)
            mb == Magnitude(b)
        IN old.a.sign # b.sign =>
             /\ mix.overflow = "Off"
             /\ Magnitude(mix.a) = IF ma >= mb THEN ma - mb ELSE mb - ma
             /\ ma > mb => mix.a.sign = old.a.sign
             /\ mb > ma => mix.a.sign = b.sign

AddDifferentSignsWitness ==
    \E instruction \in Ran({"ADD"}) :
        /\ old.a = NewWord("Plus", 0, 0, 0, 0, 1)
        /\ Addend(instruction) = NewWord("Minus", 2, 0, 0, 0, 0)
        /\ mix.a = NewWord("Minus", 1, 63, 63, 63, 63)
        /\ mix.overflow = "Off"

\* C7: ADD of operands of equal magnitude and opposite signs leaves five zero
\* bytes and the sign the accumulator had before.
AddEqualMagnitudes ==
    \A instruction \in Ran({"ADD"}) :
        LET b == Addend(instruction)
        IN (old.a.sign # b.sign /\ Magnitude(old.a) = Magnitude(b)) =>
             mix.a = NewWord(old.a.sign, 0, 0, 0, 0, 0)

AddEqualMagnitudesWitness ==
    \E instruction \in Ran({"ADD"}) :
        /\ old.a = NewWord("Minus", 0, 0, 0, 0, 1)
        /\ Addend(instruction) = NewWord("Plus", 0, 0, 0, 0, 1)
        /\ mix.a = NewWord("Minus", 0, 0, 0, 0, 0)
        /\ mix.a # NewWord("Plus", 0, 0, 0, 0, 0)

\* C8: after every ADD the machine still runs and the overflow toggle is On
\* exactly when that ADD carried out of the most significant byte, whatever
\* the toggle was before.
OverflowFollowsCarry ==
    \A instruction \in last :
        instruction.operation = "ADD" =>
            LET b == Addend(instruction)
                carried == /\ old.a.sign = b.sign
                           /\ Magnitude(old.a) + Magnitude(b) >= WordCapacity
            IN /\ status = "running"
               /\ mix.overflow = IF carried THEN "On" ELSE "Off"

OverflowFollowsCarryWitness ==
    /\ Len(history) = 2
    /\ history[1].operation = "ADD"
    /\ history[2].operation = "ADD"
    /\ old.overflow = "On"
    /\ mix.overflow = "Off"
    /\ status = "running"

\* C9: ADD adds the field (L,R) of the addressed cell, not the whole cell: the
\* accumulator's value afterwards is its value before plus the value of that
\* field, less 64^5 in magnitude when the ADD overflowed.
AddUsesField ==
    \A instruction \in Ran({"ADD"}) :
        LET total == SignedValue(old.a) + SignedValue(Addend(instruction))
        IN SignedValue(mix.a) =
             IF mix.overflow = "Off" THEN total
             ELSE IF old.a.sign = "Plus" THEN total - WordCapacity
             ELSE total + WordCapacity

AddUsesFieldWitness ==
    \E instruction \in Ran({"ADD"}) :
        /\ instruction.modification = {[l |-> 1, r |-> 2]}
        /\ Addressed(old, instruction) = NewWord("Minus", 2, 0, 0, 0, 0)
        /\ old.a = NewWord("Plus", 0, 0, 0, 0, 1)
        /\ mix.a = NewWord("Plus", 0, 0, 0, 2, 1)

\* C10: a field specification (L,R), L <= R < 8, encodes to the Byte 8L + R,
\* which is below 64 and decodes to (L,R) again, and that decoded field encodes
\* to the same Byte.
FieldByteRoundTrip ==
    \A i \in input, o \in output :
        i.kind = "field_byte" =>
            /\ o.byte = 8 * i.f.l + i.f.r
            /\ o.byte < 64
            /\ o.back = i.f
            /\ o.again = o.byte

FieldByteRoundTripWitness ==
    \E i \in input, o \in output :
        /\ i.kind = "field_byte"
        /\ i.f = [l |-> 2, r |-> 5]
        /\ o.byte = 21
        /\ o.back = [l |-> 2, r |-> 5]

\* C11: an instruction that names no field behaves as the same instruction
\* with the default field, (0,2) for STJ and (0,5) for every other operation;
\* STJ with no field sets the cell's sign to Plus and its bytes 1 and 2 to the
\* jump register's bytes, keeps bytes 3..5, and keeps the jump register.
OmittedFieldIsDefault ==
    \A instruction \in Ran(Operation) :
        instruction.modification = {} =>
            LET default == IF instruction.operation = "STJ"
                           THEN [l |-> 0, r |-> 2] ELSE [l |-> 0, r |-> 5]
                before == Addressed(old, instruction)
                after == Addressed(mix, instruction)
            IN /\ mix = exec(old, [instruction EXCEPT !.modification = {default}])
               /\ instruction.operation = "STJ" =>
                    /\ after.sign = "Plus"
                    /\ after.bytes[0] = old.j.bytes[0]
                    /\ after.bytes[1] = old.j.bytes[1]
                    /\ \A k \in 2..4 : after.bytes[k] = before.bytes[k]
                    /\ mix.j = old.j

OmittedFieldIsDefaultWitness ==
    \E instruction \in Ran({"STJ"}) :
        /\ instruction.modification = {}
        /\ old.j = NewJump(61, 62)
        /\ Addressed(old, instruction) = NewWord("Minus", 1, 16, 3, 5, 4)
        /\ Addressed(mix, instruction) = NewWord("Plus", 61, 62, 3, 5, 4)
        /\ mix.j = old.j

\* C12: Byte::new never yields a Byte of value 64 or more, so neither does
\* Address::new: every byte a constructor returns is below 64.
ConstructedBytesValid ==
    \A i \in input, o \in output :
        /\ i.kind = "byte" => o < 64
        /\ i.kind = "address" => (o.bytes[0] < 64 /\ o.bytes[1] < 64)

\* C14: every field specification that Modification::field constructs or
\* Modification::from decodes from a Byte has 0 <= L <= R <= 5.
FieldSpecsValid ==
    \A i \in input, o \in output :
        i.kind \in {"decode", "field"} => (0 <= o.l /\ o.l <= o.r /\ o.r <= 5)

\* C13: an instruction whose address magnitude is 4000 or more is rejected
\* without a panic and leaves the machine state as it was.
OutOfRangeRejected ==
    \A i \in input, instruction \in last :
        (i.kind = "address" /\ Abs(i.arg[1]) >= 4000) =>
            (status # "panic" /\ mix = old)

\* C16: Address::new(n) has bytes (|n| div 64, |n| mod 64) and sign Plus iff
\* n >= 0, and for |n| < 4000 the instruction acts on memory[|n|] alone: it
\* does what the same instruction does with address +|n| and no index
\* selector, it leaves every other cell as it was, LDA with no field loads
\* memory[|n|] and STA with no field stores into memory[|n|].
AddressedByMagnitude ==
    \A i \in input, instruction \in last :
        i.kind = "address" =>
            LET n == i.arg[1]
                m == IF n < 0 THEN 0 - n ELSE n
                plain == [instruction EXCEPT
                            !.address = [sign |-> "Plus",
                                         bytes |-> [k \in 0..1 |-> IF k = 0 THEN m \div 64
                                                                            ELSE m % 64]],
                            !.index = {}]
            IN /\ instruction.address.bytes[0] = m \div 64
               /\ instruction.address.bytes[1] = m % 64
               /\ instruction.address.sign = IF n >= 0 THEN "Plus" ELSE "Minus"
               /\ m < 4000 =>
                    /\ status = "running"
                    /\ mix = exec(old, plain)
                    /\ \A c \in Cells \ {m} : mix.memory[c] = old.memory[c]
                    /\ (instruction.operation = "LDA" /\ instruction.modification = {})
                         => mix.a = old.memory[m]
                    /\ (instruction.operation = "STA" /\ instruction.modification = {})
                         => mix.memory[m] = old.a

AddressedByMagnitudeWitness ==
    \E i \in input, instruction \in last :
        /\ i.kind = "address"
        /\ i.arg[1] = -2000
        /\ instruction.operation = "STA"
        /\ instruction.index = {"I1"}
        /\ instruction.modification = {}
        /\ old.i1 = NewIndex("Plus", 41, 51)
        /\ old.memory[2000] = NewWord("Minus", 1, 16, 3, 5, 4)
        /\ mix.memory[2000] = NewWord("Plus", 6, 7, 8, 9, 10)

\* C15: LDi / LDiN set index register i to the sign (flipped for LDiN) and
\* the two lowest-order bytes of the field of the addressed cell, whatever the
\* three high-order bytes are, without a failure; the other five index
\* registers keep their values; an index register converted to a Word and
\* back is the same index register.
IndexLoadNarrows ==
    \A instruction \in Ran(Loads \cup NegatedLoads) :
        LET op == instruction.operation
            plain == <<"LD1", "LD2", "LD3", "LD4", "LD5", "LD6">>
            negated == <<"LD1N", "LD2N", "LD3N", "LD4N", "LD5N", "LD6N">>
        IN \A k \in 1..6 :
            op \in {plain[k], negated[k]} =>
                LET f == GivenField(instruction)
                    want == FieldOf(Addressed(old, instruction), f.l, f.r)
                    reg == IndexRegister(mix, k)
                IN /\ status = "running"
                   /\ reg.sign = IF op = negated[k] THEN Flip(want.sign) ELSE want.sign
                   /\ reg.bytes[0] = want.bytes[3]
                   /\ reg.bytes[1] = want.bytes[4]
                   /\ \A other \in (1..6) \ {k} :
                        IndexRegister(mix, other) = IndexRegister(old, other)
                   /\ \A any \in 1..6 :
                        IndexFromWord(IndexIntoWord(IndexRegister(mix, any)))
                            = IndexRegister(mix, any)

IndexLoadNarrowsWitness ==
    \E instruction \in Ran({"LD3N"}) :
        /\ instruction.modification = {}
        /\ Addressed(old, instruction) = NewWord("Minus", 1, 16, 3, 5, 4)
        /\ old.i3 = NewIndex("Plus", 43, 53)
        /\ mix.i3 = NewIndex("Plus", 5, 4)
        /\ mix.i2 = NewIndex("Plus", 42, 52)

\* C17: a load or negated load changes at most its destination register, a
\* store at most the addressed cell and no register, ADD at most the
\* accumulator and the overflow toggle; everything else keeps its value, and
\* the comparison indicator is Equal in every state.
OnlyTargetChanges ==
    /\ mix.comparison_indicator = "Equal"
    /\ \A instruction \in last :
        status = "running" =>
            LET op == instruction.operation
                target ==
                    CASE op \in {"LDA", "LDAN"} -> {"a"}
                      [] op \in {"LDX", "LDXN"} -> {"x"}
                      [] op \in {"LD1", "LD1N"} -> {"i1"}
                      [] op \in {"LD2", "LD2N"} -> {"i2"}
                      [] op \in {"LD3", "LD3N"} -> {"i3"}
                      [] op \in {"LD4", "LD4N"} -> {"i4"}
                      [] op \in {"LD5", "LD5N"} -> {"i5"}
                      [] op \in {"LD6", "LD6N"} -> {"i6"}
                      [] op = "ADD" -> {"a", "overflow"}
                      [] OTHER -> {"memory"}
                cell == instruction.address.bytes[0] * 64 + instruction.address.bytes[1]
            IN /\ \A part \in (DOMAIN mix) \ target : mix[part] = old[part]
               /\ \A c \in Cells \ {cell} : mix.memory[c] = old.memory[c]
               /\ op \notin Stores => mix.memory = old.memory

OnlyTargetChangesWitness ==
    \E instruction \in Ran({"ST1"}) :
        /\ instruction.modification = {}
        /\ old.overflow = "On"
        /\ mix.overflow = "On"
        /\ Addressed(old, instruction) = NewWord("Minus", 1, 16, 3, 5, 4)
        /\ Addressed(mix, instruction) = NewWord("Plus", 0, 0, 0, 41, 51)
        /\ mix.i1 = NewIndex("Plus", 41, 51)
        /\ mix.memory[0] = old.memory[0]

\* C18: every byte of the accumulator, the extension register, the six index
\* registers, the jump register and every memory cell is in 0..63 in every
\* state; in an ADD every intermediate byte sum of the carry branch fits the
\* eight-bit type, and every adjusted byte difference of the borrow branch is
\* in 0..63.
AllBytesInRange ==
    /\ \A w \in {mix.a, mix.x} \cup {mix.memory[c] : c \in Cells} :
          \A k \in 0..4 : w.bytes[k] \in 0..63
    /\ \A r \in {mix.i1, mix.i2, mix.i3, mix.i4, mix.i5, mix.i6, mix.j} :
          \A k \in 0..1 : r.bytes[k] \in 0..63
    /\ \A instruction \in Ran({"ADD"}) :
          LET a == old.a
              b == Addend(instruction)
              p == IF Magnitude(a) < Magnitude(b) THEN b ELSE a
              q == IF Magnitude(a) < Magnitude(b) THEN a ELSE b
          IN \A k \in 0..4 :
                IF a.sign = b.sign
                THEN a.bytes[k] + b.bytes[k] + CarryInto(a, b, k) \in 0..255
                ELSE LET d == p.bytes[k] - q.bytes[k] - BorrowInto(p, q, k)
                     IN (IF d < 0 THEN d + 64 ELSE d) \in 0..63

AllBytesInRangeWitness ==
    \E instruction \in Ran({"ADD"}) :
        /\ instruction.modification = {}
        /\ old.a = NewWord("Plus", 63, 63, 63, 63, 63)
        /\ Addressed(old, instruction) = NewWord("Plus", 63, 63, 63, 63, 63)
        /\ mix.a = NewWord("Plus", 63, 63, 63, 63, 62)
        /\ mix.overflow = "On"

\* C19: a register's store with no field followed by its load with no field
\* at the same address leaves the register as it was before the two steps,
\* sign included, and the addressed cell is the register's Word form; the same
\* store or load instruction executed twice in succession gives the state it
\* gave the first time.
StoreLoadRoundTrip ==
    LET n == Len(history)
        stores == <<"STA", "STX", "ST1", "ST2", "ST3", "ST4", "ST5", "ST6">>
        loads == <<"LDA", "LDX", "LD1", "LD2", "LD3", "LD4", "LD5", "LD6">>
        Register(m, k) == IF k = 1 THEN m.a ELSE IF k = 2 THEN m.x ELSE IndexRegister(m, k - 2)
        WordForm(m, k) ==
            IF k <= 2 THEN Register(m, k)
            ELSE NewWord(Register(m, k).sign, 0, 0, 0,
                         Register(m, k).bytes[0], Register(m, k).bytes[1])
    IN n >= 2 =>
        LET first == history[n - 1]
            second == history[n]
        IN /\ first = second => mix = old
           /\ \A k \in 1..8 :
                ( /\ first.operation = stores[k]
                  /\ second.operation = loads[k]
                  /\ first.modification = {}
                  /\ second.modification = {}
                  /\ first.address = second.address )
                => /\ status = "running"
                   /\ Register(mix, k) = Register(old, k)
                   /\ n = 2 => Register(mix, k) = Register(start, k)
                   /\ Addressed(mix, second) = WordForm(mix, k)

StoreLoadRoundTripWitness ==
    /\ Len(history) = 2
    /\ history[1].operation = "ST1"
    /\ history[2].operation = "LD1"
    /\ history[1].modification = {}
    /\ history[2].modification = {}
    /\ history[1].address = NewAddress(2000)
    /\ history[2].address = NewAddress(2000)
    /\ start.i1 = NewIndex("Minus", 0, 0)
    /\ start.memory[2000] = NewWord("Plus", 1, 16, 3, 5, 4)
    /\ mix.i1 = NewIndex("Minus", 0, 0)
    /\ mix.memory[2000] = NewWord("Minus", 0, 0, 0, 0, 0)

====
